---- MODULE Spec2Model ----
(***************************************************************************)
(* zmpack (src/index.ts): the staged pipeline that copies a project's      *)
(* files into a staging directory, packs it into a zip and runs the        *)
(* configured delete/command actions around both steps.                    *)
(*                                                                         *)
(* The filesystem is a function from the paths that exist to the kind of   *)
(* entry found there: "dir", "other" (anything that is neither a regular   *)
(* file nor a directory), or the data of a regular file.                   *)
(***************************************************************************)
EXTENDS Naturals, Sequences, FiniteSets, TLC

VARIABLES fs, zip, config, configExists, pc, idx, cwd, trace, copied, mainLog, exitCode,
          targetFile, timeNow, timeText, tempDirName, targetFileName, rmStack

\* the variables of the timestamp (lines 53-62, 69-70) and of the steps of
\* rmDirectoryRecursive (lines 117-131), which the pipeline's steps leave alone
aside == <<timeNow, timeText, tempDirName, targetFileName, rmStack>>

vars == <<fs, zip, config, configExists, pc, idx, cwd, trace, copied, mainLog, exitCode,
          targetFile, aside>>

(* fs            the filesystem: the project root and the staging directory    *)
(* zip           the file at targetFilePath                                    *)
(* config        the parsed zmpack.json; configExists: whether the file exists *)
(* pc, idx       the statement of main/processConfig the run is at, and the    *)
(*               position in the stage's list (0: the list is not yet entered) *)
(* cwd           the process-wide working directory                            *)
(* trace         history: every operation performed, <<stage, index, result>>; *)
(*               the result is "ok", "warn" (logged and passed over), "skip"   *)
(*               (the staging path existed already) or a failure               *)
(* copied        history: the staging paths the copy stage wrote, with what    *)
(*               it wrote there                                                *)
(* mainLog       what main logged at the end: "packed" or "error"              *)
(* exitCode      "running", or the exit status of the process                  *)
(* targetFile    the write stream the archive is piped into: "none", "open"    *)
(*               or "finished" (everything written and the file closed)        *)
(* timeNow       the wall-clock reading of line 53, as the Date getters        *)
(*               report it                                                     *)
(* timeText, tempDirName, targetFileName                                       *)
(*               the texts of lines 54-61 and 69 (sequences of characters      *)
(*               and fields)                                                   *)
(* rmStack       the calls of rmDirectoryRecursive in progress, innermost      *)
(*               first: the directory and the entries its loop has yet to do   *)

(* ---------------------------- bounds ----------------------------------- *)

\* the number of actions of a configuration, over its four lists
MaxActions == 2
\* the length of config.files
MaxFiles == 2

(* --------------------------- the filesystem ---------------------------- *)

FileData == {"f0", "f1", "f2"}

\* process.cwd() at startup (the project root) and the staging directory
workingPath == <<"proj">>
tempDirPath == <<"stage">>

\* the item names found in directories; a configuration names "a" and "d"
AllNames == {"a", "b", "d"}
ConfigNames == {"a", "d"}

\* readdir reports the entries of a directory in an order the platform chooses
Orders == {o \in [1..3 -> AllNames] : \A i, j \in 1..3 : o[i] = o[j] => i = j}

EmptyFs == [p \in {} |-> "dir"]

OneOrder == <<"a", "b", "d">>

isFile(k) == k \in FileData
isDirectory(k) == k = "dir"

fsExist(f, p) == p \in DOMAIN f

Parent(p) == SubSeq(p, 1, Len(p) - 1)

IsUnder(q, p) == Len(q) >= Len(p) /\ SubSeq(q, 1, Len(p)) = p

\* a path can be created where its parent is a directory
ParentIsDir(f, p) == Len(p) = 1 \/ (Parent(p) \in DOMAIN f /\ f[Parent(p)] = "dir")

Put(f, p, k) == [q \in DOMAIN f \cup {p} |-> IF q = p THEN k ELSE f[q]]

Remove(f, p) == [q \in DOMAIN f \ {p} |-> f[q]]

\* every entry at or under p is a regular file or a directory
PlainTree(f, p) == \A q \in DOMAIN f : IsUnder(q, p) => f[q] # "other"

\* a regular file or directory under s whose counterpart under t exists and
\* is a directory where the source is none, or the other way round
CopyConflict(f, s, t) ==
    \E q \in DOMAIN f :
        /\ IsUnder(q, s)
        /\ f[q] # "other"
        /\ LET c == t \o SubSeq(q, Len(s) + 1, Len(q))
           IN  c \in DOMAIN f /\ ((f[c] = "dir") # (f[q] = "dir"))

\* The loops over readdir's list stop at the first failure, and what they did
\* before it depends on the order of the list; a loop that meets no failure
\* ends in the same filesystem in every order. So the orders are told apart
\* only where a failure is met: in a removal, at an entry that is neither
\* file nor directory; in a copy, at a target of the wrong kind.
RmOrders(f, p) == IF p \in DOMAIN f /\ ~PlainTree(f, p) THEN Orders ELSE {OneOrder}

CopyOrders(f, s, t) == IF CopyConflict(f, s, t) THEN Orders ELSE {OneOrder}

\* the names readdir reports for directory p, in the order o
fsReaddir(f, p, o) == SelectSeq(o, LAMBDA n : Append(p, n) \in DOMAIN f)

fsUnlink(f, p) == Remove(f, p)

fsRmdir(f, p) == Remove(f, p)

\* copyFile creates or overwrites the target; it fails on a target that is a
\* directory or whose parent is no directory
fsCopyFile(f, s, t) ==
    IF ParentIsDir(f, t) /\ ~(t \in DOMAIN f /\ f[t] = "dir")
    THEN [fs |-> Put(f, t, f[s]), ok |-> TRUE]
    ELSE [fs |-> f, ok |-> FALSE]

fsMkdir(f, t) ==
    IF ParentIsDir(f, t) /\ t \notin DOMAIN f
    THEN [fs |-> Put(f, t, "dir"), ok |-> TRUE]
    ELSE [fs |-> f, ok |-> FALSE]

RECURSIVE rmDirectoryRecursive(_, _, _)
RECURSIVE rmItems(_, _, _, _)

\* a slip: an entry that is neither file nor directory is passed over, as
\* copyDirectory passes over it
rmItems_SkipOther(f, dirPath, files, o) ==
    IF files = <<>> THEN [fs |-> f, ok |-> TRUE]
    ELSE LET itemPath == Append(dirPath, Head(files))
             itemStat == f[itemPath]
         IN  IF isFile(itemStat)
             THEN rmItems(fsUnlink(f, itemPath), dirPath, Tail(files), o)
             ELSE IF isDirectory(itemStat)
             THEN LET r == rmDirectoryRecursive(f, itemPath, o)
                  IN  IF r.ok THEN rmItems(r.fs, dirPath, Tail(files), o) ELSE r
             ELSE rmItems(f, dirPath, Tail(files), o)

\* the loop of rmDirectoryRecursive over the directory's entries
rmItems(f, dirPath, files, o) ==
    IF files = <<>> THEN [fs |-> f, ok |-> TRUE]
    ELSE LET itemPath == Append(dirPath, Head(files))
             itemStat == f[itemPath]
         IN  IF isFile(itemStat)
             THEN rmItems(fsUnlink(f, itemPath), dirPath, Tail(files), o)
             ELSE IF isDirectory(itemStat)
             THEN LET r == rmDirectoryRecursive(f, itemPath, o)
                  IN  IF r.ok THEN rmItems(r.fs, dirPath, Tail(files), o) ELSE r
             ELSE [fs |-> f, ok |-> FALSE]

\* a slip: the emptied directory itself is left in place
rmDirectoryRecursive_KeepDir(f, dirPath, o) ==
    IF ~(dirPath \in DOMAIN f /\ f[dirPath] = "dir") THEN [fs |-> f, ok |-> FALSE]
    ELSE rmItems(f, dirPath, fsReaddir(f, dirPath, o), o)

rmDirectoryRecursive(f, dirPath, o) ==
    IF ~(dirPath \in DOMAIN f /\ f[dirPath] = "dir") THEN [fs |-> f, ok |-> FALSE]
    ELSE LET r == rmItems(f, dirPath, fsReaddir(f, dirPath, o), o)
         IN  IF r.ok THEN [fs |-> fsRmdir(r.fs, dirPath), ok |-> TRUE] ELSE r

RECURSIVE copyDirectory(_, _, _, _)
RECURSIVE copyItems(_, _, _, _, _)

\* a slip: the loop copies the regular files and passes over the directories
copyItems_FilesOnly(f, sourcePath, targetPath, files, o) ==
    IF files = <<>> THEN [fs |-> f, ok |-> TRUE]
    ELSE LET sourceItemPath == Append(sourcePath, Head(files))
             targetItemPath == Append(targetPath, Head(files))
             r == IF isFile(f[sourceItemPath])
                  THEN fsCopyFile(f, sourceItemPath, targetItemPath)
                  ELSE [fs |-> f, ok |-> TRUE]
         IN  IF r.ok THEN copyItems(r.fs, sourcePath, targetPath, Tail(files), o) ELSE r

\* the loop of copyDirectory over the source directory's entries
copyItems(f, sourcePath, targetPath, files, o) ==
    IF files = <<>> THEN [fs |-> f, ok |-> TRUE]
    ELSE LET sourceItemPath == Append(sourcePath, Head(files))
             targetItemPath == Append(targetPath, Head(files))
             itemStat == f[sourceItemPath]
             r == IF isFile(itemStat) THEN fsCopyFile(f, sourceItemPath, targetItemPath)
                  ELSE IF isDirectory(itemStat)
                  THEN copyDirectory(f, sourceItemPath, targetItemPath, o)
                  ELSE [fs |-> f, ok |-> TRUE]
         IN  IF r.ok THEN copyItems(r.fs, sourcePath, targetPath, Tail(files), o) ELSE r

\* a slip: the target directory is emptied before the source is mirrored
copyDirectory_Mirror(f, sourcePath, targetPath, o) ==
    LET m == IF ~fsExist(f, targetPath) THEN fsMkdir(f, targetPath)
             ELSE [fs |-> [q \in {x \in DOMAIN f : ~IsUnder(x, targetPath) \/ x = targetPath}
                              |-> f[q]],
                   ok |-> TRUE]
    IN  IF m.ok
        THEN copyItems(m.fs, sourcePath, targetPath, fsReaddir(m.fs, sourcePath, o), o)
        ELSE m

copyDirectory(f, sourcePath, targetPath, o) ==
    LET m == IF ~fsExist(f, targetPath) THEN fsMkdir(f, targetPath)
             ELSE [fs |-> f, ok |-> TRUE]
    IN  IF m.ok
        THEN copyItems(m.fs, sourcePath, targetPath, fsReaddir(m.fs, sourcePath, o), o)
        ELSE m

(* ------------------------------ commands ------------------------------- *)

\* the two command lines a configuration uses: one creates the file "a" in
\* its working directory when it is missing and succeeds, one exits non-zero
CommandLines == {"touch a", "false"}

childProcessExec(f, commandLine, wd) ==
    IF ~(wd \in DOMAIN f /\ f[wd] = "dir") THEN [fs |-> f, ok |-> FALSE]
    ELSE IF commandLine = "touch a"
    THEN [fs |-> IF Append(wd, "a") \in DOMAIN f THEN f ELSE Put(f, Append(wd, "a"), "f0"),
          ok |-> TRUE]
    ELSE [fs |-> f, ok |-> FALSE]

(* ---------------------------- configuration ---------------------------- *)

Actions ==
    {<<"delete", n>> : n \in ConfigNames} \cup {<<"command", c>> : c \in CommandLines}
        \cup {<<"noop">>}

SeqsUpTo(S, n) == UNION {[1..k -> S] : k \in 0..n}

Range(s) == {s[i] : i \in 1..Len(s)}

Stages == {"copyBefore", "copyAfter", "packBefore", "packAfter"}

\* the value of config when zmpack.json could not be read
NoConfig ==
    [copyBefore |-> <<>>, copyAfter |-> <<>>, files |-> <<>>, packBefore |-> <<>>,
     packAfter |-> <<>>]

(* ------------------------------ the run -------------------------------- *)

\* the clock before it is read
NoTime == [year |-> 0, month |-> 0, date |-> 0, day |-> 0, hours |-> 0, minutes |-> 0,
           seconds |-> 0]

\* a slip: copyAfter rooted at the staging directory
StageDir_CopyAfterInStaging(stage) ==
    IF stage = "copyBefore" THEN workingPath ELSE tempDirPath

\* the working directory processConfig passes to processActions for a stage
StageDir(stage) ==
    IF stage \in {"copyBefore", "copyAfter"} THEN workingPath ELSE tempDirPath

StageActions(c, stage) ==
    CASE stage = "copyBefore" -> c.copyBefore
      [] stage = "copyAfter" -> c.copyAfter
      [] stage = "packBefore" -> c.packBefore
      [] stage = "packAfter" -> c.packAfter

\* a slip in the sequence: copyAfter run before the copy
NextStage_CopyAfterFirst(stage) ==
    CASE stage = "copyBefore" -> "copyAfter"
      [] stage = "copyAfter" -> "copy"
      [] stage = "copy" -> "packBefore"
      [] stage = "packBefore" -> "pack"
      [] stage = "pack" -> "packAfter"
      [] stage = "packAfter" -> "cleanup"

\* the statement of processConfig that follows a stage
NextStage(stage) ==
    CASE stage = "copyBefore" -> "copy"
      [] stage = "copy" -> "copyAfter"
      [] stage = "copyAfter" -> "packBefore"
      [] stage = "packBefore" -> "pack"
      [] stage = "pack" -> "packAfter"
      [] stage = "packAfter" -> "cleanup"

\* where control is after item i - 1 of a list of n items of a stage
Advance(stage, i, n) ==
    IF i > n THEN [pc |-> NextStage(stage), idx |-> 0] ELSE [pc |-> stage, idx |-> i]

NoZip == [status |-> "none", entries |-> EmptyFs]

\* what archive.directory(workingPath, false) puts in the zip: the tree under
\* the directory, at the archive root
ArchiveOf(f, dir) ==
    LET inside == {q \in DOMAIN f : IsUnder(q, dir) /\ q # dir /\ f[q] # "other"}
        rels == {SubSeq(q, Len(dir) + 1, Len(q)) : q \in inside}
    IN  [r \in rels |-> f[dir \o r]]

(* the project trees and the staging paths a run may start from *)

Fs(entries) == [p \in {e[1] : e \in entries} |-> (CHOOSE e \in entries : e[1] = p)[2]]

\* the project root: a file and a directory with a nested directory; or a
\* directory holding an entry that is neither file nor directory, and no "a";
\* or an "a" that is neither file nor directory, beside an empty directory
ProjectTrees ==
    { Fs({<<<<"proj">>, "dir">>, <<<<"proj", "a">>, "f1">>, <<<<"proj", "d">>, "dir">>,
          <<<<"proj", "d", "a">>, "f2">>, <<<<"proj", "d", "d">>, "dir">>,
          <<<<"proj", "d", "d", "a">>, "f1">>}),
      Fs({<<<<"proj">>, "dir">>, <<<<"proj", "d">>, "dir">>,
          <<<<"proj", "d", "a">>, "f1">>, <<<<"proj", "d", "b">>, "other">>}),
      Fs({<<<<"proj">>, "dir">>, <<<<"proj", "a">>, "other">>, <<<<"proj", "d">>, "dir">>,
          <<<<"proj", "b">>, "f2">>}) }

\* what an earlier run of the same name and timestamp left at the staging path
LeftoverStaging ==
    Fs({<<<<"stage">>, "dir">>, <<<<"stage", "b">>, "f2">>, <<<<"stage", "d">>, "dir">>,
        <<<<"stage", "d", "b">>, "f2">>})

\* the filesystems a run may start from: each project tree, with the staging
\* path free or taken
InitialFilesystems == {p @@ s : p \in ProjectTrees, s \in {EmptyFs, LeftoverStaging}}

Init ==
    /\ fs \in InitialFilesystems
    /\ configExists \in BOOLEAN
    /\ IF configExists
       THEN \E n1, n2, n3, n4 \in 0..MaxActions :
               /\ n1 + n2 + n3 + n4 <= MaxActions
               /\ \E cb \in [1..n1 -> Actions], ca \in [1..n2 -> Actions],
                     pb \in [1..n3 -> Actions], pa \in [1..n4 -> Actions],
                     fl \in SeqsUpTo(ConfigNames, MaxFiles) :
                       config = [copyBefore |-> cb, copyAfter |-> ca, files |-> fl,
                                 packBefore |-> pb, packAfter |-> pa]
       ELSE config = NoConfig
    /\ zip = NoZip
    /\ pc = "readConfig"
    /\ idx = 0
    /\ cwd = workingPath
    /\ trace = <<>>
    /\ copied = EmptyFs
    /\ mainLog = <<>>
    /\ exitCode = "running"
    /\ targetFile = "none"
    /\ timeNow = NoTime
    /\ timeText = <<>>
    /\ tempDirName = <<>>
    /\ targetFileName = <<>>
    /\ rmStack = <<>>

\* a slip: the configuration is used whether or not the file was found
ReadConfig_NoCheck ==
    /\ pc = "readConfig"
    /\ pc' = "copyBefore"
    /\ UNCHANGED <<aside, targetFile, fs, zip, config, configExists, idx, cwd, trace,
                   copied, mainLog, exitCode>>

\* main, line 33: readConfig throws when zmpack.json is missing
ReadConfig ==
    /\ pc = "readConfig"
    /\ pc' = IF configExists THEN "copyBefore" ELSE "rejected"
    /\ UNCHANGED <<aside, targetFile, fs, zip, config, configExists, idx, cwd, trace,
                   copied, mainLog, exitCode>>

\* processActions, lines 81-82: the chdir that opens a stage
EnterStage ==
    /\ pc \in Stages
    /\ idx = 0
    /\ IF StageDir(pc) \in DOMAIN fs /\ fs[StageDir(pc)] = "dir"
       THEN /\ cwd' = StageDir(pc)
            /\ trace' = Append(trace, <<pc, 0, "ok">>)
            /\ LET a == Advance(pc, 1, Len(StageActions(config, pc)))
               IN  pc' = a.pc /\ idx' = a.idx
       ELSE /\ pc' = "rejected"
            /\ trace' = Append(trace, <<pc, 0, "throw">>)
            /\ UNCHANGED <<cwd, idx>>
    /\ UNCHANGED <<aside, targetFile, fs, zip, config, configExists, copied, mainLog, exitCode>>

\* a slip: the exit status of the command is dropped
RunAction_IgnoreExit(f, action, wd, o) ==
    IF action[1] = "command"
    THEN [fs |-> childProcessExec(f, action[2], wd).fs, res |-> "ok"]
    ELSE [fs |-> f, res |-> "warn"]

\* a slip: a delete action stats its path without asking whether it exists
RunAction_NoExistCheck(f, action, wd, o) ==
    IF action[1] = "delete"
    THEN LET itemPath == Append(wd, action[2])
         IN  IF ~fsExist(f, itemPath) THEN [fs |-> f, res |-> "throw"]
             ELSE IF isFile(f[itemPath]) THEN [fs |-> fsUnlink(f, itemPath), res |-> "ok"]
             ELSE IF isDirectory(f[itemPath])
             THEN LET r == rmDirectoryRecursive(f, itemPath, o)
                  IN  [fs |-> r.fs, res |-> IF r.ok THEN "ok" ELSE "throw"]
             ELSE [fs |-> f, res |-> "warn"]
    ELSE IF action[1] = "command"
    THEN LET r == childProcessExec(f, action[2], wd)
         IN  [fs |-> r.fs, res |-> IF r.ok THEN "ok" ELSE "throw"]
    ELSE [fs |-> f, res |-> "warn"]

\* a slip: an action with an unknown tag is rejected
RunAction_UnknownThrows(f, action, wd, o) ==
    IF action[1] = "delete"
    THEN LET itemPath == Append(wd, action[2])
         IN  IF ~fsExist(f, itemPath) THEN [fs |-> f, res |-> "ok"]
             ELSE IF isFile(f[itemPath]) THEN [fs |-> fsUnlink(f, itemPath), res |-> "ok"]
             ELSE IF isDirectory(f[itemPath])
             THEN LET r == rmDirectoryRecursive(f, itemPath, o)
                  IN  [fs |-> r.fs, res |-> IF r.ok THEN "ok" ELSE "throw"]
             ELSE [fs |-> f, res |-> "warn"]
    ELSE IF action[1] = "command"
    THEN LET r == childProcessExec(f, action[2], wd)
         IN  [fs |-> r.fs, res |-> IF r.ok THEN "ok" ELSE "throw"]
    ELSE [fs |-> f, res |-> "throw"]

\* a slip: a delete action resolves its item against the staging directory,
\* whatever its stage
RunAction_DeleteInStaging(f, action, wd, o) ==
    IF action[1] = "delete"
    THEN LET itemPath == Append(tempDirPath, action[2])
         IN  IF ~fsExist(f, itemPath) THEN [fs |-> f, res |-> "ok"]
             ELSE IF isFile(f[itemPath]) THEN [fs |-> fsUnlink(f, itemPath), res |-> "ok"]
             ELSE IF isDirectory(f[itemPath])
             THEN LET r == rmDirectoryRecursive(f, itemPath, OneOrder)
                  IN  [fs |-> r.fs, res |-> IF r.ok THEN "ok" ELSE "throw"]
             ELSE [fs |-> f, res |-> "warn"]
    ELSE IF action[1] = "command"
    THEN LET r == childProcessExec(f, action[2], wd)
         IN  [fs |-> r.fs, res |-> IF r.ok THEN "ok" ELSE "throw"]
    ELSE [fs |-> f, res |-> "warn"]

\* processActions, lines 84-113: what one action does to the filesystem
\* under working directory wd; res is "ok", "warn" or "throw"
RunAction(f, action, wd, o) ==
    LET actionType == action[1]
    IN  IF actionType = "delete"
        THEN LET itemPath == Append(wd, action[2])
             IN  IF fsExist(f, itemPath)
                 THEN IF isFile(f[itemPath])
                      THEN [fs |-> fsUnlink(f, itemPath), res |-> "ok"]
                      ELSE IF isDirectory(f[itemPath])
                      THEN LET r == rmDirectoryRecursive(f, itemPath, o)
                           IN  [fs |-> r.fs, res |-> IF r.ok THEN "ok" ELSE "throw"]
                      ELSE [fs |-> f, res |-> "warn"]
                 ELSE [fs |-> f, res |-> "ok"]
        ELSE IF actionType = "command"
        THEN LET r == childProcessExec(f, action[2], wd)
             IN  [fs |-> r.fs, res |-> IF r.ok THEN "ok" ELSE "throw"]
        ELSE [fs |-> f, res |-> "warn"]

\* line 89: the path a delete action names under working directory wd (no
\* path for another action)
ItemPathOf(action, wd) == IF action[1] = "delete" THEN Append(wd, action[2]) ELSE <<>>

\* a slip: the action is not awaited, so its failure does not stop the loop
DoAction_NotAwaited ==
    /\ pc \in Stages
    /\ idx >= 1
    /\ \E o \in RmOrders(fs, ItemPathOf(StageActions(config, pc)[idx], StageDir(pc))) :
        LET actions == StageActions(config, pc)
            r == RunAction(fs, actions[idx], StageDir(pc), o)
            a == Advance(pc, idx + 1, Len(actions))
        IN  /\ fs' = r.fs
            /\ trace' = Append(trace, <<pc, idx, r.res>>)
            /\ pc' = a.pc
            /\ idx' = a.idx
    /\ UNCHANGED <<aside, targetFile, zip, config, configExists, cwd, copied, mainLog, exitCode>>

\* processActions, lines 83-114: one turn of the loop over the stage's actions
DoAction ==
    /\ pc \in Stages
    /\ idx >= 1
    /\ \E o \in RmOrders(fs, ItemPathOf(StageActions(config, pc)[idx], StageDir(pc))) :
        LET actions == StageActions(config, pc)
            r == RunAction(fs, actions[idx], StageDir(pc), o)
            a == Advance(pc, idx + 1, Len(actions))
        IN  /\ fs' = r.fs
            /\ trace' = Append(trace, <<pc, idx, r.res>>)
            /\ pc' = IF r.res = "throw" THEN "rejected" ELSE a.pc
            /\ idx' = IF r.res = "throw" THEN idx ELSE a.idx
    /\ UNCHANGED <<aside, targetFile, zip, config, configExists, cwd, copied, mainLog, exitCode>>

\* a slip: the staging directory is never created
ProcessCopyBegin_NoMkdir ==
    /\ pc = "copy"
    /\ idx = 0
    /\ LET a == Advance("copy", 1, Len(config.files))
       IN  /\ fs' = fs
           /\ trace' = Append(trace, <<"copy", 0, IF fsExist(fs, tempDirPath) THEN "skip"
                                                 ELSE "ok">>)
           /\ pc' = a.pc
           /\ idx' = a.idx
    /\ UNCHANGED <<aside, targetFile, zip, config, configExists, cwd, copied, mainLog, exitCode>>

\* processCopy, lines 134-136: the staging directory is created unless the
\* path exists already
ProcessCopyBegin ==
    /\ pc = "copy"
    /\ idx = 0
    /\ LET m == IF ~fsExist(fs, tempDirPath) THEN fsMkdir(fs, tempDirPath)
                ELSE [fs |-> fs, ok |-> TRUE]
           a == Advance("copy", 1, Len(config.files))
       IN  /\ fs' = m.fs
           /\ trace' = Append(trace, <<"copy", 0, IF ~m.ok THEN "throw"
                                                 ELSE IF fsExist(fs, tempDirPath) THEN "skip"
                                                 ELSE "ok">>)
           /\ pc' = IF m.ok THEN a.pc ELSE "rejected"
           /\ idx' = IF m.ok THEN a.idx ELSE idx
    /\ UNCHANGED <<aside, targetFile, zip, config, configExists, cwd, copied, mainLog, exitCode>>

\* a slip: a listed name that is missing is stat'ed all the same, which throws
CopyItem_MissingThrows(f, itemName, o) ==
    LET sourceItemPath == Append(workingPath, itemName)
        targetItemPath == Append(tempDirPath, itemName)
    IN  IF ~fsExist(f, sourceItemPath) THEN [fs |-> f, res |-> "throw"]
        ELSE IF isFile(f[sourceItemPath])
        THEN LET r == fsCopyFile(f, sourceItemPath, targetItemPath)
             IN  [fs |-> r.fs, res |-> IF r.ok THEN "ok" ELSE "throw"]
        ELSE IF isDirectory(f[sourceItemPath])
        THEN LET r == copyDirectory(f, sourceItemPath, targetItemPath, o)
             IN  [fs |-> r.fs, res |-> IF r.ok THEN "ok" ELSE "throw"]
        ELSE [fs |-> f, res |-> "warn"]

\* processCopy, lines 139-154: what copying one name of config.files does;
\* res is "ok", "warn" (skipped) or "throw"
CopyItem(f, itemName, o) ==
    LET sourceItemPath == Append(workingPath, itemName)
        targetItemPath == Append(tempDirPath, itemName)
    IN  IF ~fsExist(f, sourceItemPath) THEN [fs |-> f, res |-> "warn"]
        ELSE IF isFile(f[sourceItemPath])
        THEN LET r == fsCopyFile(f, sourceItemPath, targetItemPath)
             IN  [fs |-> r.fs, res |-> IF r.ok THEN "ok" ELSE "throw"]
        ELSE IF isDirectory(f[sourceItemPath])
        THEN LET r == copyDirectory(f, sourceItemPath, targetItemPath, o)
             IN  [fs |-> r.fs, res |-> IF r.ok THEN "ok" ELSE "throw"]
        ELSE [fs |-> f, res |-> "warn"]

\* the staging paths a completed copy of itemName wrote: the counterparts of
\* the regular files and directories of the source
WrittenBy(f, itemName) ==
    LET s == Append(workingPath, itemName)
    IN  {tempDirPath \o SubSeq(q, 2, Len(q)) :
            q \in {x \in DOMAIN f : IsUnder(x, s) /\ f[x] # "other"}}

\* processCopy, lines 138-155: one turn of the loop over config.files
ProcessCopyItem ==
    /\ pc = "copy"
    /\ idx >= 1
    /\ \E o \in CopyOrders(fs, Append(workingPath, config.files[idx]),
                             Append(tempDirPath, config.files[idx])) :
        LET r == CopyItem(fs, config.files[idx], o)
            a == Advance("copy", idx + 1, Len(config.files))
        IN  /\ fs' = r.fs
            /\ trace' = Append(trace, <<"copy", idx, r.res>>)
            /\ copied' = IF r.res = "ok"
                          THEN LET w == WrittenBy(fs, config.files[idx]) \cap DOMAIN r.fs
                               IN  [q \in DOMAIN copied \cup w |->
                                       IF q \in w THEN r.fs[q] ELSE copied[q]]
                          ELSE copied
            /\ pc' = IF r.res = "throw" THEN "rejected" ELSE a.pc
            /\ idx' = IF r.res = "throw" THEN idx ELSE a.idx
    /\ UNCHANGED <<aside, targetFile, zip, config, configExists, cwd, mainLog, exitCode>>

\* what the archiver may report: the archive is written, or an error reaches
\* the caller of processPack ("rejected"), or an error is thrown from the
\* archiver's 'error' listener outside any caller ("crashed")
PackOutcomes == {"ok", "rejected", "crashed"}

\* a slip: the archiver's error is logged and the run goes on
ProcessPack_ErrorLogged ==
    /\ pc = "pack"
    /\ targetFile' = "open"
    /\ \E outcome \in PackOutcomes :
        /\ trace' = Append(trace, <<"pack", 0, outcome>>)
        /\ zip' = IF outcome = "ok"
                  THEN [status |-> "complete", entries |-> ArchiveOf(fs, tempDirPath)]
                  ELSE [status |-> "partial", entries |-> EmptyFs]
        /\ pc' = NextStage("pack")
        /\ exitCode' = exitCode
    /\ UNCHANGED <<aside, fs, config, configExists, idx, cwd, copied, mainLog>>

\* processPack, lines 175-209: the write stream is opened and the archive
\* piped into it; the promise of archive.finalize() settles when the archiver
\* has read and emitted every entry, which is not when the stream has written
\* them
ProcessPack ==
    /\ pc = "pack"
    /\ targetFile' = "open"
    /\ \E outcome \in PackOutcomes :
        /\ trace' = Append(trace, <<"pack", 0, outcome>>)
        /\ zip' = IF outcome = "ok"
                  THEN [status |-> "complete", entries |-> ArchiveOf(fs, tempDirPath)]
                  ELSE [status |-> "partial", entries |-> EmptyFs]
        /\ pc' = CASE outcome = "ok" -> NextStage("pack")
                   [] outcome = "rejected" -> "rejected"
                   [] outcome = "crashed" -> "exited"
        /\ exitCode' = IF outcome = "crashed" THEN "1" ELSE exitCode
    /\ UNCHANGED <<aside, fs, config, configExists, idx, cwd, copied, mainLog>>

\* lines 177, 189: the write stream finishes on its own, some time after the
\* archiver has ended; the process does not end before it has, unless it
\* crashed
TargetFileFinish ==
    /\ targetFile = "open"
    /\ zip.status = "complete"
    /\ exitCode # "1"
    /\ targetFile' = "finished"
    /\ UNCHANGED <<aside, fs, zip, config, configExists, pc, idx, cwd, trace, copied,
                   mainLog, exitCode>>

\* a slip: the working directory is not switched back before the removal
CleanupChdir_NoChdir ==
    /\ pc = "cleanup"
    /\ idx = 0
    /\ cwd' = cwd
    /\ trace' = Append(trace, <<"cleanup", 0, "ok">>)
    /\ idx' = 1
    /\ UNCHANGED <<aside, targetFile, fs, zip, config, configExists, pc, copied, mainLog, exitCode>>

\* processConfig, line 75
CleanupChdir ==
    /\ pc = "cleanup"
    /\ idx = 0
    /\ cwd' = workingPath
    /\ trace' = Append(trace, <<"cleanup", 0, "ok">>)
    /\ idx' = 1
    /\ UNCHANGED <<aside, targetFile, fs, zip, config, configExists, pc, copied, mainLog, exitCode>>

\* processConfig, lines 76-77
CleanupRemove ==
    /\ pc = "cleanup"
    /\ idx = 1
    /\ \E o \in RmOrders(fs, tempDirPath) :
        LET r == rmDirectoryRecursive(fs, tempDirPath, o)
        IN  /\ fs' = r.fs
            /\ trace' = Append(trace, <<"cleanup", 1, IF r.ok THEN "ok" ELSE "throw">>)
            /\ pc' = IF r.ok THEN "resolved" ELSE "rejected"
    /\ UNCHANGED <<aside, targetFile, zip, config, configExists, idx, cwd, copied, mainLog,
                   exitCode>>

\* main, line 35, and the end of the process
MainPacked ==
    /\ pc = "resolved"
    /\ mainLog' = Append(mainLog, "packed")
    /\ pc' = "exited"
    /\ exitCode' = "0"
    /\ UNCHANGED <<aside, targetFile, fs, zip, config, configExists, idx, cwd, trace, copied>>

\* lines 27-30: the catch of main's rejection, and the end of the process
MainCatch ==
    /\ pc = "rejected"
    /\ mainLog' = Append(mainLog, "error")
    /\ pc' = "exited"
    /\ exitCode' = "0"
    /\ UNCHANGED <<aside, targetFile, fs, zip, config, configExists, idx, cwd, trace, copied>>

Next ==
    \/ ReadConfig
    \/ EnterStage
    \/ DoAction
    \/ ProcessCopyBegin
    \/ ProcessCopyItem
    \/ ProcessPack
    \/ TargetFileFinish
    \/ CleanupChdir
    \/ CleanupRemove
    \/ MainPacked
    \/ MainCatch

Spec == Init /\ [][Next]_vars

(* ---------------------------- the timestamp --------------------------- *)

\* Lines 53-62 and 69-70 of processConfig, on their own: the clock is read
\* and formatted, and the two names are made of the text. A text is a
\* sequence of characters; config.name is one field of a name.

Digits == <<"0", "1", "2", "3", "4", "5", "6", "7", "8", "9">>

RECURSIVE toString(_)
\* Number.prototype.toString: the decimal digits, no padding
toString(n) ==
    IF n < 10 THEN <<Digits[n + 1]>>
    ELSE Append(toString(n \div 10), Digits[(n % 10) + 1])

RECURSIVE padStart(_, _, _)
\* String.prototype.padStart with a one-character filler
padStart(s, targetLength, padString) ==
    IF Len(s) >= targetLength THEN s ELSE padStart(<<padString>> \o s, targetLength, padString)

\* the day of the week of a calendar date, 0 for Sunday
MonthKeys == <<0, 3, 2, 5, 0, 3, 5, 1, 4, 6, 2, 4>>

Weekday(year, month, date) ==
    LET y == IF month < 3 THEN year - 1 ELSE year
    IN  (y + (y \div 4) + (y \div 400) + MonthKeys[month] + date - (y \div 100)) % 7

\* the wall-clock times a run may read: a calendar date and a time of day
Times ==
    {[year |-> y, month |-> m, date |-> d, day |-> Weekday(y, m, d), hours |-> h,
      minutes |-> mi, seconds |-> sec] :
        y \in {2024, 2026}, m \in {1, 2, 10, 12}, d \in {1, 9, 28}, h \in {0, 23},
        mi \in {5}, sec \in {0, 59}}

\* the getters of Date
getFullYear(t) == t.year
\* the month, counted from 0 for January
getMonth(t) == t.month - 1
\* the day of the week, 0 for Sunday
getDay(t) == t.day
getHours(t) == t.hours
getMinutes(t) == t.minutes
getSeconds(t) == t.seconds

\* lines 54-60
TimeTextOf(t) ==
    toString(getFullYear(t)) \o padStart(toString(getMonth(t)), 2, "0")
        \o padStart(toString(getDay(t)), 2, "0") \o padStart(toString(getHours(t)), 2, "0")
        \o padStart(toString(getMinutes(t)), 2, "0")
        \o padStart(toString(getSeconds(t)), 2, "0")

\* the pipeline at rest: the state of its variables while the timestamp, or
\* a removal, is looked at on its own
PipelineAtRest ==
    /\ zip = NoZip
    /\ config = NoConfig
    /\ configExists = TRUE
    /\ idx = 0
    /\ cwd = workingPath
    /\ copied = EmptyFs
    /\ mainLog = <<>>
    /\ exitCode = "running"
    /\ targetFile = "none"

pipeline == <<zip, config, configExists, idx, cwd, copied, mainLog, exitCode, targetFile>>

InitTimestamp ==
    /\ PipelineAtRest
    /\ fs = EmptyFs
    /\ trace = <<>>
    /\ rmStack = <<>>
    /\ pc = "timeNow"
    /\ timeNow = NoTime
    /\ timeText = <<>>
    /\ tempDirName = <<>>
    /\ targetFileName = <<>>

\* line 53
ReadClock ==
    /\ pc = "timeNow"
    /\ timeNow' \in Times
    /\ pc' = "timeText"
    /\ UNCHANGED <<pipeline, fs, trace, rmStack, timeText, tempDirName, targetFileName>>

\* lines 54-60
FormatTime ==
    /\ pc = "timeText"
    /\ timeText' = TimeTextOf(timeNow)
    /\ pc' = "tempDirName"
    /\ UNCHANGED <<pipeline, fs, trace, rmStack, timeNow, tempDirName, targetFileName>>

\* lines 61-62
NameStaging ==
    /\ pc = "tempDirName"
    /\ tempDirName' = <<"name", "-">> \o timeText
    /\ pc' = "targetFileName"
    /\ UNCHANGED <<pipeline, fs, trace, rmStack, timeNow, timeText, targetFileName>>

\* lines 69-70
NameTarget ==
    /\ pc = "targetFileName"
    /\ targetFileName' = <<"name", ".">> \o timeText \o <<".zip">>
    /\ pc' = "named"
    /\ UNCHANGED <<pipeline, fs, trace, rmStack, timeNow, timeText, tempDirName>>

NextTimestamp ==
    \/ ReadClock
    \/ FormatTime
    \/ NameStaging
    \/ NameTarget

SpecTimestamp == InitTimestamp /\ [][NextTimestamp]_vars

(* ------------------- rmDirectoryRecursive, step by step ---------------- *)

\* Lines 117-131 on their own, one awaited call at a time. A frame of rmStack
\* is one call in progress: its directory, where it stands ("readdir": at
\* line 118; "loop": in the loop or at line 130) and the names the loop has
\* yet to handle, the first being the one in hand. trace holds the call and,
\* when it failed, the path it failed at.

\* the staging directory as the pack stages may find it: holding the copy of
\* a project's "a" and "d"; the same with an entry that a packBefore command
\* made and that is neither file nor directory; the same copied into what an
\* earlier run had left
StagedTrees ==
    LET copy == {<<<<"stage">>, "dir">>, <<<<"stage", "a">>, "f1">>,
                 <<<<"stage", "d">>, "dir">>, <<<<"stage", "d", "a">>, "f2">>,
                 <<<<"stage", "d", "d">>, "dir">>, <<<<"stage", "d", "d", "a">>, "f1">>}
    IN  { Fs(copy),
          Fs(copy \cup {<<<<"stage", "d", "d", "b">>, "other">>}),
          Fs(copy) @@ LeftoverStaging }

\* the directories the pipeline removes, in the filesystems it finds them in:
\* the "d" that a delete action names, in a project root or in the staging
\* directory, and the staging directory at the cleanup
RmCalls ==
    {[fs |-> f, dirPath |-> <<"proj", "d">>] : f \in ProjectTrees}
    \cup {[fs |-> f, dirPath |-> <<"stage", "d">>] : f \in StagedTrees}
    \cup {[fs |-> f, dirPath |-> tempDirPath] : f \in StagedTrees}

InitRm ==
    /\ PipelineAtRest
    /\ timeNow = NoTime
    /\ timeText = <<>>
    /\ tempDirName = <<>>
    /\ targetFileName = <<>>
    /\ pc = "rm"
    /\ \E c \in RmCalls :
          /\ fs = c.fs
          /\ trace = <<<<"rm", c.dirPath, "call">>>>
          /\ rmStack = <<[dirPath |-> c.dirPath, at |-> "readdir", files |-> <<>>]>>

\* the call in progress, and the entry its loop has in hand
RmTop == Head(rmStack)

RmItemPath == Append(RmTop.dirPath, Head(RmTop.files))

RmInLoop == pc = "rm" /\ RmTop.at = "loop" /\ RmTop.files # <<>>

\* the stack after the call in progress has returned: its caller goes on to
\* the next name of its list
RmReturn ==
    IF Len(rmStack) = 1 THEN <<>>
    ELSE <<[rmStack[2] EXCEPT !.files = Tail(@)]>> \o SubSeq(rmStack, 3, Len(rmStack))

\* line 118
RmReaddir ==
    /\ pc = "rm"
    /\ RmTop.at = "readdir"
    /\ \E o \in Orders :
          rmStack' = <<[RmTop EXCEPT !.at = "loop", !.files = fsReaddir(fs, RmTop.dirPath, o)]>>
                         \o Tail(rmStack)
    /\ UNCHANGED <<pipeline, fs, pc, trace, timeNow, timeText, tempDirName, targetFileName>>

\* lines 120-123
RmUnlink ==
    /\ RmInLoop
    /\ isFile(fs[RmItemPath])
    /\ fs' = fsUnlink(fs, RmItemPath)
    /\ rmStack' = <<[RmTop EXCEPT !.files = Tail(@)]>> \o Tail(rmStack)
    /\ UNCHANGED <<pipeline, pc, trace, timeNow, timeText, tempDirName, targetFileName>>

\* lines 124-125: the call for a directory in the list
RmDescend ==
    /\ RmInLoop
    /\ isDirectory(fs[RmItemPath])
    /\ rmStack' = <<[dirPath |-> RmItemPath, at |-> "readdir", files |-> <<>>]>> \o rmStack
    /\ UNCHANGED <<pipeline, fs, pc, trace, timeNow, timeText, tempDirName, targetFileName>>

\* lines 126-127: the throw leaves every call in progress
RmThrow ==
    /\ RmInLoop
    /\ ~isFile(fs[RmItemPath])
    /\ ~isDirectory(fs[RmItemPath])
    /\ trace' = Append(trace, <<"rm", RmItemPath, "throw">>)
    /\ rmStack' = <<>>
    /\ pc' = "rmRejected"
    /\ UNCHANGED <<pipeline, fs, timeNow, timeText, tempDirName, targetFileName>>

\* a slip: the directory is removed while its loop still has names to handle
RmRmdir_Early ==
    /\ pc = "rm"
    /\ RmTop.at = "loop"
    /\ fs' = fsRmdir(fs, RmTop.dirPath)
    /\ rmStack' = RmReturn
    /\ pc' = IF Len(rmStack) = 1 THEN "rmResolved" ELSE pc
    /\ UNCHANGED <<pipeline, trace, timeNow, timeText, tempDirName, targetFileName>>

\* line 130, and the return
RmRmdir ==
    /\ pc = "rm"
    /\ RmTop.at = "loop"
    /\ RmTop.files = <<>>
    /\ fs' = fsRmdir(fs, RmTop.dirPath)
    /\ rmStack' = RmReturn
    /\ pc' = IF Len(rmStack) = 1 THEN "rmResolved" ELSE pc
    /\ UNCHANGED <<pipeline, trace, timeNow, timeText, tempDirName, targetFileName>>

NextRm ==
    \/ RmReaddir
    \/ RmUnlink
    \/ RmDescend
    \/ RmThrow
    \/ RmRmdir

SpecRm == InitRm /\ [][NextRm]_vars

(* ------------------------------ claims --------------------------------- *)

\* the operations of a stage with n list items: entering it, then each item
StageOps(stage, n) == [i \in 1..(n + 1) |-> <<stage, i - 1>>]

\* every operation of a complete run of configuration c, in the documented order
FullOrder(c) ==
    StageOps("copyBefore", Len(c.copyBefore)) \o StageOps("copy", Len(c.files))
        \o StageOps("copyAfter", Len(c.copyAfter))
        \o StageOps("packBefore", Len(c.packBefore)) \o <<<<"pack", 0>>>>
        \o StageOps("packAfter", Len(c.packAfter)) \o <<<<"cleanup", 0>>, <<"cleanup", 1>>>>

Failed(res) == res \in {"throw", "rejected", "crashed"}

\* the action of the configuration that trace entry e ran, if it ran one
ActionOf(e) == StageActions(config, e[1])[e[2]]

IsActionEvent(e) == e[1] \in Stages /\ e[2] >= 1

C2_CommandFailureHalts ==
    \A k \in 1..Len(trace) :
        (IsActionEvent(trace[k]) /\ ActionOf(trace[k]) = <<"command", "false">>)
            => /\ k = Len(trace)
               /\ pc \in {"rejected", "exited"}
               /\ mainLog # <<"packed">>

C2_Witness ==
    /\ pc = "exited"
    /\ Len(config.copyBefore) = 2
    /\ config.copyBefore[1] = <<"command", "false">>
    /\ Len(config.files) = 1
    /\ Len(trace) = 2

StagingGone(f) == \A q \in DOMAIN f : ~IsUnder(q, tempDirPath)

\* the names the delete actions of the two pack stages name
PackStageDeletes ==
    {a[2] : a \in {x \in Range(config.packBefore) \cup Range(config.packAfter) :
                      x[1] = "delete"}}

\* the step in which the final cleanup completes and processConfig returns
CleanupCompletes == pc = "cleanup" /\ idx = 1 /\ pc' = "resolved"

\* C3 as stated: when the final cleanup of a successful run starts, the
\* staging directory exists and holds every file the copy stage copied, and
\* when it ends the staging directory is gone.
C3_Original ==
    [][CleanupCompletes =>
          /\ fsExist(fs, tempDirPath) /\ fs[tempDirPath] = "dir"
          /\ \A p \in DOMAIN copied : fsExist(fs, p) /\ fs[p] = copied[p]
          /\ StagingGone(fs')]_vars

\* C3 amended: when the final cleanup of a successful run starts, the staging
\* directory exists and holds every file the copy stage copied, except what
\* lies at or under a name that a packBefore or packAfter action deleted; when
\* it ends the staging directory is gone.
C3_StagingLifecycle ==
    [][CleanupCompletes =>
          /\ fsExist(fs, tempDirPath) /\ fs[tempDirPath] = "dir"
          /\ \A p \in DOMAIN copied :
                (\A n \in PackStageDeletes : ~IsUnder(p, Append(tempDirPath, n)))
                    => fsExist(fs, p) /\ fs[p] = copied[p]
          /\ StagingGone(fs')]_vars

C3_Witness ==
    /\ pc = "resolved"
    /\ config.files = <<"a", "d">>
    /\ config.packBefore = <<<<"delete", "d">>>>
    /\ DOMAIN copied = {<<"stage", "a">>, <<"stage", "d">>, <<"stage", "d", "a">>,
                         <<"stage", "d", "d">>, <<"stage", "d", "d", "a">>}
    /\ StagingGone(fs)

NoActions(c) ==
    c.copyBefore = <<>> /\ c.copyAfter = <<>> /\ c.packBefore = <<>> /\ c.packAfter = <<>>

FilesAllExist == \A i \in 1..Len(config.files) : fsExist(fs, Append(workingPath, config.files[i]))

PackFailed == \E k \in 1..Len(trace) : trace[k][1] = "pack" /\ Failed(trace[k][3])

\* the listed files and directory trees of the project root, as archive
\* entries; keep says which kinds of entry count
ListedEntries(keep) ==
    LET listed == {q \in DOMAIN fs : /\ IsUnder(q, workingPath)
                                      /\ Len(q) >= 2
                                      /\ q[2] \in Range(config.files)
                                      /\ fs[q] \in keep}
    IN  [r \in {SubSeq(q, 2, Len(q)) : q \in listed} |-> fs[workingPath \o r]]

\* the run created the staging directory itself
StagingCreated == \E k \in 1..Len(trace) : trace[k] = <<"copy", 0, "ok">>

\* C4 as stated, read in its favour (the staging path was free when the run
\* started and the archiver did not fail): with empty action lists and every
\* listed name present in the project root, the run succeeds and the zip
\* holds exactly the listed files and directory trees, every entry of them.
C4_Original ==
    (pc = "exited" /\ configExists /\ NoActions(config) /\ FilesAllExist /\ ~PackFailed
        /\ StagingCreated)
        => /\ mainLog = <<"packed">>
           /\ zip.status = "complete"
           /\ zip.entries = ListedEntries(FileData \cup {"dir", "other"})

\* C4 amended: with empty action lists, every listed name present in the
\* project root, a staging path that was free when the run started and no
\* failure of the archiver, the run succeeds and the zip holds exactly the
\* regular files and the directories of the listed files and directory trees;
\* entries that are neither are left out.
C4_ArchiveIsListedTrees ==
    (pc = "exited" /\ configExists /\ NoActions(config) /\ FilesAllExist /\ ~PackFailed
        /\ StagingCreated)
        => /\ mainLog = <<"packed">>
           /\ zip.status = "complete"
           /\ zip.entries = ListedEntries(FileData \cup {"dir"})

C4_Witness ==
    /\ pc = "exited"
    /\ NoActions(config)
    /\ config.files = <<"a", "d">>
    /\ StagingCreated
    /\ mainLog = <<"packed">>
    /\ DOMAIN zip.entries = {<<"a">>, <<"d">>, <<"d", "a">>, <<"d", "d">>, <<"d", "d", "a">>}
    /\ zip.entries[<<"d", "a">>] = "f2"

\* the step is one of the pipeline's own: it performs an operation (the
\* write stream of the archive finishes in a step of its own, at any time)
PipelineStep == trace' # trace

\* the step that runs action a of the current stage's list
RunsAction(a) ==
    pc \in Stages /\ idx >= 1 /\ StageActions(config, pc)[idx] = a /\ PipelineStep

\* the step goes on to the next action of the list, or past the stage
GoesOn ==
    LET a == Advance(pc, idx + 1, Len(StageActions(config, pc)))
    IN  pc' = a.pc /\ idx' = a.idx

\* C5: a delete action whose path does not exist changes nothing in the
\* filesystem and raises nothing: it ends "ok" and the run goes on to the
\* next action, or past the stage.
C5_DeleteMissingIsNoOp ==
    [][\A n \in ConfigNames :
          (RunsAction(<<"delete", n>>) /\ ~fsExist(fs, Append(StageDir(pc), n)))
              => /\ fs' = fs
                 /\ zip' = zip
                 /\ trace' = Append(trace, <<pc, idx, "ok">>)
                 /\ GoesOn]_vars

\* the same delete twice in a row, both done: the second found nothing to delete
C5_Witness ==
    \E k \in 1..Len(trace) :
        /\ k + 1 <= Len(trace)
        /\ IsActionEvent(trace[k])
        /\ trace[k + 1][1] = trace[k][1]
        /\ ActionOf(trace[k])[1] = "delete"
        /\ ActionOf(trace[k + 1]) = ActionOf(trace[k])
        /\ trace[k][3] = "ok"
        /\ trace[k + 1][3] = "ok"
        /\ pc = "exited"
        /\ mainLog = <<"packed">>

\* C6: a delete action on a regular file removes that one path; on a
\* directory holding only regular files and directories it removes the
\* directory and everything under it; every other path keeps its entry, and
\* the run goes on.
C6_DeleteRemovesExactlyTheItem ==
    [][\A n \in ConfigNames :
          LET p == Append(StageDir(pc), n)
          IN  (RunsAction(<<"delete", n>>) /\ fsExist(fs, p) /\ PlainTree(fs, p))
                  => /\ DOMAIN fs' = {q \in DOMAIN fs : ~IsUnder(q, p)}
                     /\ \A q \in DOMAIN fs' : fs'[q] = fs[q]
                     /\ trace' = Append(trace, <<pc, idx, "ok">>)
                     /\ GoesOn]_vars

\* the project's directory "d", which held a file and a directory with a
\* file, was deleted next to the file "a"
C6_Witness ==
    /\ Len(trace) = 2
    /\ config.copyBefore = <<<<"delete", "d">>>>
    /\ trace[2] = <<"copyBefore", 1, "ok">>
    /\ ~fsExist(fs, <<"proj", "d">>)
    /\ fsExist(fs, <<"proj", "a">>) /\ fs[<<"proj", "a">>] = "f1"

\* the step that copies the directory named by item idx of config.files
CopiesDirectory ==
    /\ pc = "copy"
    /\ idx >= 1
    /\ fsExist(fs, Append(workingPath, config.files[idx]))
    /\ fs[Append(workingPath, config.files[idx])] = "dir"

\* the counterpart in the project root of a staging path
SourceOf(q) == workingPath \o SubSeq(q, 2, Len(q))

\* C7: copying a directory a second time, right after copying it, changes
\* nothing and succeeds; and a copy never removes or changes a path of the
\* target that has no counterpart in the source.
C7_CopyTreeIdempotentCumulative ==
    [][CopiesDirectory =>
          /\ (idx >= 2 /\ config.files[idx - 1] = config.files[idx])
                => fs' = fs /\ trace' = Append(trace, <<"copy", idx, "ok">>)
          /\ \A q \in DOMAIN fs :
                (IsUnder(q, tempDirPath) /\ ~fsExist(fs, SourceOf(q)))
                    => fsExist(fs', q) /\ fs'[q] = fs[q]]_vars

\* "d" was copied twice into a staging directory that held d/b from before
C7_Witness ==
    /\ config.files = <<"d", "d">>
    /\ Len(trace) >= 4
    /\ trace[3] = <<"copy", 1, "ok">>
    /\ trace[4] = <<"copy", 2, "ok">>
    /\ trace[2] = <<"copy", 0, "skip">>
    /\ fsExist(fs, <<"stage", "d", "b">>)
    /\ fsExist(fs, <<"stage", "d", "d", "a">>)
    /\ ~fsExist(fs, <<"proj", "d", "b">>)

\* the configuration's actions all carry an unrecognized tag
OnlyUnknownActions(c) ==
    \A st \in Stages : \A a \in Range(StageActions(c, st)) : a = <<"noop">>

\* C8: an action with an unrecognized tag changes nothing in the filesystem,
\* the archive or the working directory, raises nothing, and the run goes on
\* to the next action or stage; a run whose actions are all unrecognized ends
\* as a run without actions ends: successfully, unless the archiver fails.
C8_UnknownActionNonFatal ==
    /\ [][RunsAction(<<"noop">>) =>
              /\ fs' = fs /\ zip' = zip /\ cwd' = cwd
              /\ trace' = Append(trace, <<pc, idx, "warn">>)
              /\ GoesOn]_vars
    /\ [](((pc = "exited" /\ configExists /\ OnlyUnknownActions(config) /\ ~PackFailed)
              => mainLog = <<"packed">>))

C8_Witness ==
    /\ pc = "exited"
    /\ mainLog = <<"packed">>
    /\ config.copyAfter = <<<<"noop">>>>
    /\ config.packAfter = <<<<"noop">>>>
    /\ Len(config.files) = 2

\* C9: the process ends with a non-zero status, after one top-level error
\* log, whenever the run ends on the error path, and with status zero after
\* logging the archive path whenever the run succeeds.
C9_ExitStatus ==
    pc = "exited" =>
        \/ mainLog = <<"packed">> /\ exitCode = "0"
        \/ mainLog = <<"error">> /\ exitCode # "0"

\* C10: without zmpack.json no operation of any stage is performed, the
\* filesystem stays as it was (no staging directory is created), no archive
\* is written, and the run ends on the error path.
C10_ConfigMissingAbortsAtStartup ==
    /\ [](~configExists =>
              /\ trace = <<>>
              /\ zip = NoZip
              /\ pc \in {"readConfig", "rejected", "exited"}
              /\ pc = "exited" => mainLog = <<"error">>)
    /\ [][~configExists => fs' = fs]_vars

C10_Witness == ~configExists /\ pc = "exited" /\ mainLog = <<"error">> /\ trace = <<>>

\* C11: once the archiver has reported an error in the pack stage, the pack
\* is the last operation of the run: no packAfter action and no step of the
\* cleanup is performed, the staging directory is left where it is, the run
\* is on its error path or over, and it is not reported as successful.
C11_ArchiveErrorAborts ==
    PackFailed =>
        /\ trace[Len(trace)][1] = "pack"
        /\ \A k \in 1..Len(trace) : trace[k][1] \notin {"packAfter", "cleanup"}
        /\ fsExist(fs, tempDirPath)
        /\ pc \in {"rejected", "exited"}
        /\ mainLog # <<"packed">>
        /\ zip.status # "complete"

\* the archiver failed in a run that had a packAfter action to perform, and
\* the run is over
C11_Witness ==
    /\ PackFailed
    /\ trace[Len(trace)] = <<"pack", 0, "rejected">>
    /\ Len(config.packAfter) = 1
    /\ Len(config.files) = 1
    /\ pc = "exited"
    /\ mainLog = <<"error">>

\* the text the timestamp is documented to be: the year, then the calendar
\* month, the day of the month, the hour, the minute and the second in two
\* digits each
DocumentedTimeText(t) ==
    toString(t.year) \o padStart(toString(t.month), 2, "0")
        \o padStart(toString(t.date), 2, "0") \o padStart(toString(t.hours), 2, "0")
        \o padStart(toString(t.minutes), 2, "0") \o padStart(toString(t.seconds), 2, "0")

\* C12: for every wall-clock time the timestamp text is the unpadded year
\* followed by the calendar month (01-12), the day of the month (01-31), the
\* hour, the minute and the second in two digits each, and the staging
\* directory's name and the archive's file name carry that same text.
C12_TimestampText ==
    /\ pc \in {"tempDirName", "targetFileName", "named"}
          => timeText = DocumentedTimeText(timeNow)
    /\ pc = "named"
          => /\ tempDirName = <<"name", "-">> \o DocumentedTimeText(timeNow)
             /\ targetFileName = <<"name", ".">> \o DocumentedTimeText(timeNow) \o <<".zip">>

PackReached == \E k \in 1..Len(trace) : trace[k][1] = "pack"

\* the run completed every operation of the documented order, none failing
CompletedAll ==
    /\ Len(trace) = Len(FullOrder(config))
    /\ \A k \in 1..Len(trace) : ~Failed(trace[k][3])

\* the run ended with a fatal condition: the configuration was missing, or
\* its last operation failed
EndedFatally == ~configExists \/ (trace # <<>> /\ Failed(trace[Len(trace)][3]))

\* C13 as stated: a run that is over either completed all six stages and the
\* cleanup and reported the archive's path, with the archive at that path, or
\* ended with a fatal condition, reported no path and left no file at the
\* archive's path.
C13_Original ==
    pc = "exited" =>
        \/ /\ CompletedAll
           /\ mainLog = <<"packed">>
           /\ zip.status = "complete" /\ targetFile # "none"
        \/ /\ EndedFatally
           /\ mainLog # <<"packed">>
           /\ zip.status = "none" /\ targetFile = "none"

\* C13 amended: a run that is over either completed all six stages and the
\* cleanup and reported the archive's path, with the archive at that path and
\* the staging directory gone, or ended with a fatal condition and reported
\* no path; after a fatal condition a file is left at the archive's path
\* exactly when the pack stage was reached: the whole archive when the
\* failure came after the pack stage, an unfinished file when the archiver
\* failed. No path is reported before the run is over.
C13_AllOrNothingReport ==
    /\ pc = "exited" =>
          \/ /\ CompletedAll
             /\ mainLog = <<"packed">>
             /\ zip.status = "complete" /\ targetFile # "none"
             /\ StagingGone(fs)
          \/ /\ EndedFatally
             /\ mainLog # <<"packed">>
             /\ zip.status = (IF ~PackReached THEN "none"
                              ELSE IF PackFailed THEN "partial" ELSE "complete")
             /\ (targetFile = "none") = ~PackReached
    /\ mainLog # <<>> => pc = "exited"

\* a packAfter command failed after the archive had been written: the run
\* ended with an error and the whole archive is at the archive's path
C13_Witness ==
    /\ pc = "exited"
    /\ mainLog = <<"error">>
    /\ config.packAfter = <<<<"command", "false">>>>
    /\ config.files = <<"d">>
    /\ zip.status = "complete"
    /\ <<"d", "a">> \in DOMAIN zip.entries
    /\ targetFile = "finished"

\* the step removes an entry of the staging directory, or the directory
RemovesStaging == \E q \in DOMAIN fs : IsUnder(q, tempDirPath) /\ q \notin DOMAIN fs'

\* C14: whenever an action of a stage is about to execute, the process-wide
\* working directory is that stage's directory (the project root for
\* copyBefore and copyAfter, the staging directory for packBefore and
\* packAfter), and the action leaves it there; when the cleanup removes the
\* staging directory the working directory is the project root, not a path
\* at or under the staging directory, and it is the project root after a
\* successful run.
C14_WorkingDirectory ==
    /\ []((pc \in Stages /\ idx >= 1) => cwd = StageDir(pc))
    /\ [][(pc \in Stages /\ idx >= 1 /\ PipelineStep) => cwd' = cwd]_vars
    /\ [][(pc = "cleanup" /\ RemovesStaging) => cwd = workingPath /\ cwd' = workingPath]_vars
    /\ []((pc = "cleanup" /\ idx = 1) => ~IsUnder(cwd, tempDirPath))
    /\ []((pc = "resolved" \/ mainLog = <<"packed">>) => cwd = workingPath)

\* a run with a packAfter action, which ran in the staging directory, has
\* removed the staging directory from the project root and returned
C14_Witness ==
    /\ pc = "resolved"
    /\ Len(config.packAfter) = 1
    /\ Len(config.copyBefore) = 1
    /\ cwd = workingPath
    /\ StagingGone(fs)
    /\ trace[Len(trace) - 2] = <<"packAfter", 1, "ok">>

\* the step that handles item idx of config.files
CopiesItem == pc = "copy" /\ idx >= 1

\* the source of a listed name is missing, or neither file nor directory
Uncopyable(f, itemName) ==
    LET s == Append(workingPath, itemName)
    IN  ~fsExist(f, s) \/ f[s] = "other"

\* the same entries, of the same kind and data, at p in f and at q in g
SameEntry(f, p, g, q) == fsExist(g, q) /\ g[q] = f[p]

\* C15: in the copy stage a listed name whose source is missing, or is
\* neither a regular file nor a directory, is passed over: the filesystem
\* stays as it is (nothing is created in the staging directory), the step
\* ends with a warning and the loop goes on; and when the copy stage is
\* over every other listed name has been copied, wherever it stands in the
\* list: each regular file and directory at or under its source has its
\* counterpart in the staging directory.
C15_CopySkipsUncopyable ==
    /\ [][(CopiesItem /\ Uncopyable(fs, config.files[idx]))
              => /\ fs' = fs
                 /\ trace' = Append(trace, <<"copy", idx, "warn">>)
                 /\ LET a == Advance("copy", idx + 1, Len(config.files))
                    IN  pc' = a.pc /\ idx' = a.idx]_vars
    /\ []((pc = "copyAfter" /\ idx = 0)
              => \A i \in 1..Len(config.files) :
                    LET s == Append(workingPath, config.files[i])
                    IN  ~Uncopyable(fs, config.files[i])
                            => /\ trace[Len(config.copyBefore) + 2 + i][3] = "ok"
                               /\ \A q \in DOMAIN fs :
                                     (IsUnder(q, s) /\ fs[q] # "other")
                                         => SameEntry(fs, q, fs,
                                                tempDirPath \o SubSeq(q, 2, Len(q))))

\* "a" was listed first and passed over (it is missing, or neither file nor
\* directory), and "d", listed after it, was copied
C15_Witness ==
    /\ pc = "copyAfter"
    /\ idx = 0
    /\ config.files = <<"a", "d">>
    /\ config.copyBefore = <<>>
    /\ trace[3] = <<"copy", 1, "warn">>
    /\ trace[4] = <<"copy", 2, "ok">>
    /\ ~fsExist(fs, <<"stage", "a">>)
    /\ fsExist(fs, <<"stage", "d", "a">>)

\* the step in which the copy stage has made sure of its staging directory
\* and turns to the listed items
CopyStarts == pc = "copy" /\ idx = 0 /\ pc' # "rejected"

\* the staging directory exists in f and holds no entry
StagingEmpty(f) ==
    /\ fsExist(f, tempDirPath) /\ f[tempDirPath] = "dir"
    /\ \A q \in DOMAIN f : IsUnder(q, tempDirPath) => q = tempDirPath

\* the archive entries a packBefore command may have created
CreatedByPackBefore ==
    IF <<"command", "touch a">> \in Range(config.packBefore) THEN {<<"a">>} ELSE {}

\* C16 as stated: when the copy stage starts copying items the staging
\* directory holds no entry, and every entry of the archive was put in the
\* staging directory by the run.
C16_Original ==
    /\ [][CopyStarts => StagingEmpty(fs')]_vars
    /\ [](zip.status = "complete" => \A r \in DOMAIN zip.entries :
                (tempDirPath \o r) \in DOMAIN copied \/ r \in CreatedByPackBefore)

\* C16 amended: when nothing exists at the staging path as the copy stage
\* starts, the run creates the staging directory, it holds no entry when the
\* copying of items starts, and every entry of the archive was put in the
\* staging directory by the run (copied by the copy stage or created by a
\* packBefore command); when the path exists already it is used as it is.
C16_StagingFreshWhenFree ==
    /\ [][(CopyStarts /\ ~fsExist(fs, tempDirPath)) => StagingEmpty(fs')]_vars
    /\ [][(CopyStarts /\ fsExist(fs, tempDirPath)) => fs' = fs]_vars
    /\ []((zip.status = "complete" /\ StagingCreated)
              => \A r \in DOMAIN zip.entries :
                    \/ r \in CreatedByPackBefore
                    \/ /\ (tempDirPath \o r) \in DOMAIN copied
                       /\ zip.entries[r] = copied[tempDirPath \o r])

\* a run that found the staging path free has archived what it copied
C16_Witness ==
    /\ StagingCreated
    /\ zip.status = "complete"
    /\ config.files = <<"d">>
    /\ config.packBefore = <<<<"command", "touch a">>>>
    /\ DOMAIN zip.entries = {<<"a">>, <<"d">>, <<"d", "a">>, <<"d", "d">>, <<"d", "d", "a">>}
    /\ pc = "exited"

\* trace entry k is a delete action that failed
DeleteFailedAt(k) ==
    /\ IsActionEvent(trace[k])
    /\ ActionOf(trace[k])[1] = "delete"
    /\ trace[k][3] = "throw"

\* C17: a delete action on a directory whose tree holds an entry that is
\* neither a regular file nor a directory fails, with every such entry still
\* in place; the failure ends the run: it is the last operation (no further
\* action, no further stage, no cleanup), a staging directory the run created
\* is left behind, and the run is not reported as successful.
C17_UnsupportedEntryAborts ==
    /\ [][\A n \in ConfigNames :
              LET p == Append(StageDir(pc), n)
              IN  (RunsAction(<<"delete", n>>) /\ fsExist(fs, p) /\ fs[p] = "dir"
                      /\ ~PlainTree(fs, p))
                      => /\ trace' = Append(trace, <<pc, idx, "throw">>)
                         /\ pc' = "rejected"
                         /\ \A q \in DOMAIN fs :
                               (IsUnder(q, p) /\ fs[q] = "other") => SameEntry(fs, q, fs', q)]_vars
    /\ [](\A k \in 1..Len(trace) :
              DeleteFailedAt(k)
                  => /\ k = Len(trace)
                     /\ pc \in {"rejected", "exited"}
                     /\ mainLog # <<"packed">>
                     /\ StagingCreated => fsExist(fs, tempDirPath))

\* a copyAfter delete of "d", which holds an entry that is neither file nor
\* directory, failed with a packBefore action still to do, and the run is
\* over with the staging directory left behind
C17_Witness ==
    /\ pc = "exited"
    /\ config.copyAfter = <<<<"delete", "d">>>>
    /\ Len(config.packBefore) = 1
    /\ trace[Len(trace)] = <<"copyAfter", 1, "throw">>
    /\ fs[<<"proj", "d", "b">>] = "other"
    /\ StagingCreated
    /\ fsExist(fs, tempDirPath)
    /\ mainLog = <<"error">>

\* C18: the pack stage is complete before anything that follows it: when a
\* packAfter action is about to run, when the removal of the staging
\* directory is about to start and when success is about to be reported,
\* the archiver has read every entry of the staging directory and the zip at
\* the archive's path is fully written; and once the staging directory has
\* been removed no step touches the filesystem again.
C18_PackCompleteBeforeNext ==
    /\ []((\/ pc = "packAfter" /\ idx >= 1
           \/ pc = "cleanup" /\ idx = 1
           \/ pc = "resolved")
              => zip.status = "complete" /\ targetFile = "finished")
    /\ [][(PackReached /\ StagingGone(fs)) => fs' = fs]_vars

\* the step that runs a delete action of the current stage's list
RunsDelete ==
    pc \in Stages /\ idx >= 1 /\ StageActions(config, pc)[idx][1] = "delete" /\ PipelineStep

\* the entries at or under directory p are the same in f and g
SameTree(f, g, p) ==
    /\ {q \in DOMAIN f : IsUnder(q, p)} = {q \in DOMAIN g : IsUnder(q, p)}
    /\ \A q \in DOMAIN f : IsUnder(q, p) => g[q] = f[q]

\* C19: a delete action touches only what lies under the working directory
\* of its own stage, whether it succeeds or fails: a copyBefore or copyAfter
\* delete leaves every entry of the staging directory as it is, a packBefore
\* or packAfter delete leaves every entry of the project root as it is; so
\* a listed file that a copyAfter action deletes is archived all the same.
C19_DeleteStaysInItsStage ==
    /\ [][(RunsDelete /\ pc \in {"copyBefore", "copyAfter"})
              => SameTree(fs, fs', tempDirPath)]_vars
    /\ [][(RunsDelete /\ pc \in {"packBefore", "packAfter"})
              => SameTree(fs, fs', workingPath)]_vars
    /\ []((zip.status = "complete" /\ config.packBefore = <<>>)
              => \A p \in DOMAIN copied :
                    SameEntry(copied, p, zip.entries, SubSeq(p, 2, Len(p))))

\* the listed file "a" was copied, deleted from the project root by a
\* copyAfter action, and archived; a packAfter delete then removed the staged
\* directory "d" and left the project's "d" alone
C19_Witness ==
    /\ pc = "exited"
    /\ mainLog = <<"packed">>
    /\ config.files = <<"a", "d">>
    /\ config.copyAfter = <<<<"delete", "a">>>>
    /\ config.packAfter = <<<<"delete", "d">>>>
    /\ ~fsExist(fs, <<"proj", "a">>)
    /\ fsExist(fs, <<"proj", "d", "a">>)
    /\ <<"a">> \in DOMAIN zip.entries /\ zip.entries[<<"a">>] = "f1"

\* the directory rmDirectoryRecursive was called for
RmRoot == trace[1][2]

\* C20: rmDirectoryRecursive removes one entry at a time and a directory
\* only when nothing is left under it; when it has returned nothing is left
\* at or under the directory it was called for; and when it has failed, the
\* entry it failed at, neither file nor directory, is still there, with
\* every directory on the path from the requested one down to it.
C20_RemovesBottomUp ==
    /\ [][\A p \in DOMAIN fs \ DOMAIN fs' :
              /\ DOMAIN fs' = DOMAIN fs \ {p}
              /\ fs[p] = "dir" => \A q \in DOMAIN fs : IsUnder(q, p) => q = p]_vars
    /\ [][\A q \in DOMAIN fs' : q \in DOMAIN fs /\ fs'[q] = fs[q]]_vars
    /\ [](pc = "rmResolved" => \A q \in DOMAIN fs : ~IsUnder(q, RmRoot))
    /\ [](pc = "rmRejected"
              => LET e == trace[Len(trace)][2]
                 IN  /\ IsUnder(e, RmRoot)
                     /\ fsExist(fs, e) /\ fs[e] = "other"
                     /\ \A k \in Len(RmRoot)..(Len(e) - 1) :
                           fsExist(fs, SubSeq(e, 1, k)) /\ fs[SubSeq(e, 1, k)] = "dir")

\* the removal of the staging directory failed two directories down, at an
\* entry listed after a file that had been removed before it
C20_Witness ==
    /\ pc = "rmRejected"
    /\ trace[Len(trace)] = <<"rm", <<"stage", "d", "d", "b">>, "throw">>
    /\ ~fsExist(fs, <<"stage", "d", "d", "a">>)
    /\ fsExist(fs, <<"stage", "d", "d">>)
    /\ fsExist(fs, <<"stage", "d">>)

====
